---- MODULE Spec2Model ----
(***************************************************************************)
(* Model of the similar-compound adverse-effect aggregation of             *)
(* drug_data_api.py: the Flask handler similar_adverse_effects and the     *)
(* four upstream wrappers it calls (get_chembl_data, search_compound,      *)
(* get_similar_compounds, get_adverse_events).                             *)
(*                                                                         *)
(* One request is one behaviour.  The handler is split at its upstream     *)
(* calls: every action is the code from one HTTP call up to the next.      *)
(* Upstream responses are the nondeterministic inputs.                     *)
(***************************************************************************)
EXTENDS Integers, Sequences, FiniteSets, TLC

\* ------------------------------------------------------------------------
\* Bounds of the model
\* ------------------------------------------------------------------------
\* molecules in one similarity payload
MaxMatches == 2
\* event records the adverse-event source returns during one request
MaxEvents == 3
\* largest explicit ?limit= value
MaxLimit == 1

\* ------------------------------------------------------------------------
\* Program constants
\* ------------------------------------------------------------------------
DefaultLimit == 20
SubLimit == 50

\* ------------------------------------------------------------------------
\* JSON / Python values.  None (JSON null) is <<>>, any other value v is
\* <<v>>; a dict is a function from key strings to such values.
\* ------------------------------------------------------------------------
Null == <<>>

Some(v) == <<v>>

EmptyDict == [k \in {} |-> Null]

\* dict.get(key, default)
Get(d, k, default) == IF k \in DOMAIN d THEN d[k] ELSE default

\* truthiness of an optional str
Truthy(v) == v # Null /\ v[1] # ""

\* truthiness of an optional str held as a sequence of characters
TruthyChars(v) == v # Null /\ Len(v[1]) > 0

Min(a, b) == IF a < b THEN a ELSE b

Max(a, b) == IF a > b THEN a ELSE b

\* seq[:limit]
SliceTo(seq, lim) ==
    LET n == Len(seq)
        stop == IF lim < 0 THEN Max(n + lim, 0) ELSE Min(lim, n)
    IN SubSeq(seq, 1, stop)

\* str.startswith(prefix), strings as sequences of characters
StartsWith(s, prefix) ==
    Len(s) >= Len(prefix) /\ SubSeq(s, 1, Len(prefix)) = prefix

\* any(char in s for char in chars)
ContainsAny(s, chars) == \E i \in 1..Len(s) : s[i] \in chars

\* the sequences over S of length at most n (payloads of bounded length)
SeqUpTo(S, n) == UNION {[1..k -> S] : k \in 0..n}

\* ------------------------------------------------------------------------
\* Request inputs
\* ------------------------------------------------------------------------
ChemblPrefix == <<"C", "H", "E", "M", "B", "L">>

\* variant: the bracket characters are not recognised
StructureCharsNoBrackets == {"=", "#", "(", ")"}

StructureChars == {"=", "#", "(", ")", "[", "]"}

IdRegistry == <<"C", "H", "E", "M", "B", "L", "2", "5">>

IdRegistryBracket == <<"C", "H", "E", "M", "B", "L", "[", "1", "]">>

IdSmiles == <<"C", "C", "(", "=", "O", ")", "O">>

IdBracketOnly == <<"[", "x", "]">>

IdName == <<"a", "s", "p", "i", "r", "i", "n">>

Identifiers == {IdRegistry, IdRegistryBracket, IdSmiles, IdBracketOnly, IdName}

\* the ?limit= query parameter: absent, not an integer, or an integer
LimitArgs ==
    {[present |-> FALSE, parses |-> FALSE, value |-> 0],
     [present |-> TRUE, parses |-> FALSE, value |-> 0]}
    \cup {[present |-> TRUE, parses |-> TRUE, value |-> n] : n \in (0 - 1)..MaxLimit}

\* request.args.get('limit', 20, type=int)
ArgsGetInt(arg, default) ==
    IF arg.present /\ arg.parses THEN arg.value ELSE default

\* ------------------------------------------------------------------------
\* Upstream responses.  raises: requests.get raised (transport error,
\* timeout); json = Null: response.json() raises (body is not JSON).
\* ------------------------------------------------------------------------
TransportError == [raises |-> TRUE, status_code |-> 0, json |-> Null]

HttpError == [raises |-> FALSE, status_code |-> 404, json |-> Null]

NotJson == [raises |-> FALSE, status_code |-> 200, json |-> Null]

JsonBody(d) == [raises |-> FALSE, status_code |-> 200, json |-> Some(d)]

Failures == {TransportError, HttpError, NotJson}

SmilesCCO == <<"C", "C", "O">>

\* molecule records of the structure registry
Molecules ==
    {[molecule_structures |-> Some([canonical_smiles |-> Some(SmilesCCO)])],
     [molecule_structures |-> Some([canonical_smiles |-> Some(<<>>)])],
     [molecule_structures |-> Some([canonical_smiles |-> Null])],
     [molecule_structures |-> Some(EmptyDict)],
     [molecule_structures |-> Null],
     [pref_name |-> Some("X")],
     [molecule_structures |-> Some([canonical_smiles |-> Some(SmilesCCO)]),
      molecule_properties |-> Null]}

ChemblResponses == Failures \cup {JsonBody(m) : m \in Molecules}

MolStructure == [molecule_structures |-> Some([canonical_smiles |-> Some(SmilesCCO)])]

MolNoSmiles == [molecule_structures |-> Some([canonical_smiles |-> Null])]

MolNullStructures == [molecule_structures |-> Null]

\* molecule lists of a name-search payload
SearchPayloads ==
    {<<>>,
     <<MolStructure>>,
     <<MolNoSmiles>>,
     <<MolNullStructures>>,
     <<MolStructure, MolNoSmiles>>,
     <<MolNoSmiles, MolStructure>>,
     <<MolStructure, MolNullStructures>>,
     <<[molecule_structures |-> Some([canonical_smiles |-> Some(<<>>)])], MolStructure>>,
     <<[pref_name |-> Some("X")], MolStructure>>}

SearchResponses ==
    Failures
    \cup {JsonBody(EmptyDict), JsonBody([molecules |-> Null])}
    \cup {JsonBody([molecules |-> Some(ms)]) : ms \in SearchPayloads}

\* molecules of a similarity payload: only pref_name varies
SimilarMolecules ==
    {[pref_name |-> Some("A")],
     [pref_name |-> Some("B")],
     [pref_name |-> Some("")],
     [molecule_chembl_id |-> Some("CHEMBL1")]}

SimilarityResponses ==
    Failures
    \cup {JsonBody(EmptyDict), JsonBody([molecules |-> Null]),
          JsonBody([molecules |-> Some(<<[pref_name |-> Some("A"),
                                          molecule_structures |-> Null]>>)])}
    \cup {JsonBody([molecules |-> Some(ms)]) : ms \in SeqUpTo(SimilarMolecules, MaxMatches)}

\* result records of the adverse-event source
FaersResults ==
    {[term |-> Some("NAUSEA"), count |-> Some(5)],
     [term |-> Some("HEADACHE"), count |-> Some(5)],
     [term |-> Some("NAUSEA")],
     [term |-> Null, count |-> Some(3)]}

FaersResponses(n) ==
    Failures
    \cup {JsonBody(EmptyDict), JsonBody([results |-> Null])}
    \cup {JsonBody([results |-> Some(rs)]) : rs \in SeqUpTo(FaersResults, n)}

\* ------------------------------------------------------------------------
\* The upstream wrappers, as functions of the response they receive
\* ------------------------------------------------------------------------
\* the dict built from one molecule; Null when building it raises
MoleculeRecord(molecule) ==
    LET structures == Get(molecule, "molecule_structures", Some(EmptyDict))
    IN IF structures = Null
       THEN Null
       ELSE Some([pref_name |-> Get(molecule, "pref_name", Null),
                  smiles |-> Get(structures[1], "canonical_smiles", Null)])

\* get_chembl_data: the compound dict, or None
get_chembl_data(response) ==
    IF response.raises THEN Null
    ELSE IF response.status_code # 200 THEN Null
    ELSE IF response.json = Null THEN Null
    ELSE LET data == response.json[1]
             properties == Get(data, "molecule_properties", Some(EmptyDict))
         IN IF properties = Null THEN Null ELSE MoleculeRecord(data)

\* the dict built from one similarity item (also reads molecule_properties;
\* the similarity score is a number or absent, so float() does not raise)
SimilarRecord(item) ==
    IF Get(item, "molecule_properties", Some(EmptyDict)) = Null
    THEN Null
    ELSE MoleculeRecord(item)

\* search_compound: the list of result dicts, [] on any failure
search_compound(response) ==
    IF response.raises THEN <<>>
    ELSE IF response.status_code # 200 THEN <<>>
    ELSE IF response.json = Null THEN <<>>
    ELSE LET molecules == Get(response.json[1], "molecules", Some(<<>>))
         IN IF molecules = Null THEN <<>>
            ELSE IF \E i \in 1..Len(molecules[1]) : MoleculeRecord(molecules[1][i]) = Null
            THEN <<>>
            ELSE [i \in 1..Len(molecules[1]) |-> MoleculeRecord(molecules[1][i])[1]]

\* get_similar_compounds: the list of match dicts, [] on any failure
get_similar_compounds(response, lim) ==
    IF response.raises THEN <<>>
    ELSE IF response.status_code # 200 THEN <<>>
    ELSE IF response.json = Null THEN <<>>
    ELSE LET molecules == Get(response.json[1], "molecules", Some(<<>>))
         IN IF molecules = Null THEN <<>>
            ELSE LET items == SliceTo(molecules[1], lim)
                 IN IF \E i \in 1..Len(items) : SimilarRecord(items[i]) = Null
                    THEN <<>>
                    ELSE [i \in 1..Len(items) |-> SimilarRecord(items[i])[1]]

ZeroEvents(drug_name) ==
    [drug_name |-> drug_name, total_reports |-> 0, adverse_events |-> <<>>]

\* get_adverse_events: the event dict, the zero shape on any failure
get_adverse_events(drug_name, response) ==
    IF response.raises THEN ZeroEvents(drug_name)
    ELSE IF response.status_code # 200 THEN ZeroEvents(drug_name)
    ELSE IF response.json = Null THEN ZeroEvents(drug_name)
    ELSE LET results == Get(response.json[1], "results", Some(<<>>))
         IN IF results = Null THEN ZeroEvents(drug_name)
            ELSE LET adverse_events ==
                         [i \in 1..Len(results[1]) |->
                             [reaction |-> Get(results[1][i], "term", Null),
                              count |-> Get(results[1][i], "count", Null)]]
                 IN [drug_name |-> drug_name,
                     total_reports |-> Len(adverse_events),
                     adverse_events |-> adverse_events]

\* ------------------------------------------------------------------------
\* The tally all_reactions: a dict in insertion order, held as a sequence
\* of [reaction, count] with distinct reactions; count is an optional int.
\* ------------------------------------------------------------------------
Keys(tally) == {tally[i].reaction : i \in 1..Len(tally)}

IndexOfKey(tally, r) == CHOOSE i \in 1..Len(tally) : tally[i].reaction = r

\* outcome of a step that may raise
Ok(t) == [ok |-> TRUE, tally |-> t]

Raised == [ok |-> FALSE, tally |-> <<>>]

\* variant: the count is assigned where it should be added
MergeEventOverwrite(all_reactions, event) ==
    LET reaction == Get(event, "reaction", Null)
        count == Get(event, "count", Some(0))
    IN IF ~Truthy(reaction) THEN Ok(all_reactions)
       ELSE IF reaction[1] \in Keys(all_reactions)
       THEN LET i == IndexOfKey(all_reactions, reaction[1])
            IN Ok([all_reactions EXCEPT ![i].count = count])
       ELSE Ok(Append(all_reactions, [reaction |-> reaction[1], count |-> count]))

\* the body of the inner loop for one event
MergeEvent(all_reactions, event) ==
    LET reaction == Get(event, "reaction", Null)
        count == Get(event, "count", Some(0))
    IN IF ~Truthy(reaction) THEN Ok(all_reactions)
       ELSE IF reaction[1] \in Keys(all_reactions)
       THEN LET i == IndexOfKey(all_reactions, reaction[1])
            IN IF all_reactions[i].count = Null \/ count = Null
               THEN Raised
               ELSE Ok([all_reactions EXCEPT ![i].count = Some(@[1] + count[1])])
       ELSE Ok(Append(all_reactions, [reaction |-> reaction[1], count |-> count]))

\* the inner loop over adverse_data['adverse_events']
RECURSIVE MergeEvents(_, _)
MergeEvents(all_reactions, events) ==
    IF events = <<>> THEN Ok(all_reactions)
    ELSE LET r == MergeEvent(all_reactions, Head(events))
         IN IF r.ok THEN MergeEvents(r.tally, Tail(events)) ELSE Raised

\* variant: reverse=True is missing, lowest first
InsertAsc(sorted, x) ==
    LET k == Cardinality({i \in 1..Len(sorted) :
                             sorted[i].total_count[1] <= x.total_count[1]})
    IN SubSeq(sorted, 1, k) \o <<x>> \o SubSeq(sorted, k + 1, Len(sorted))

\* variant: an entry is placed before the entries of equal count
InsertDescTiesFirst(sorted, x) ==
    LET k == Cardinality({i \in 1..Len(sorted) :
                             sorted[i].total_count[1] > x.total_count[1]})
    IN SubSeq(sorted, 1, k) \o <<x>> \o SubSeq(sorted, k + 1, Len(sorted))

\* stable insertion into a sequence sorted by total_count, highest first
InsertDesc(sorted, x) ==
    LET k == Cardinality({i \in 1..Len(sorted) :
                             sorted[i].total_count[1] >= x.total_count[1]})
    IN SubSeq(sorted, 1, k) \o <<x>> \o SubSeq(sorted, k + 1, Len(sorted))

RECURSIVE SortDesc(_, _)
SortDesc(sorted, rest) ==
    IF rest = <<>> THEN sorted
    ELSE SortDesc(InsertDesc(sorted, Head(rest)), Tail(rest))

\* sorted([...], key=total_count, reverse=True); Null when a comparison raises
sorted_reactions(all_reactions) ==
    LET entries == [i \in 1..Len(all_reactions) |->
                       [reaction |-> all_reactions[i].reaction,
                        total_count |-> all_reactions[i].count]]
    IN IF Len(entries) >= 2 /\ \E i \in 1..Len(entries) : entries[i].total_count = Null
       THEN Null
       ELSE IF Len(entries) <= 1 THEN Some(entries)
       ELSE Some(SortDesc(<<>>, entries))

\* variant: the first result that has a structure string, if there is one
first_with_structure(search_results) ==
    LET good == {i \in 1..Len(search_results) :
                    TruthyChars(Get(search_results[i], "smiles", Null))}
    IN IF good = {} THEN search_results[1]
       ELSE search_results[CHOOSE i \in good : \A k \in good : i <= k]

\* search_results[0]
first_result(search_results) == search_results[1]

\* ------------------------------------------------------------------------
\* State of one request
\* ------------------------------------------------------------------------
VARIABLES
    pc,                 \* the upstream call that is next: "resolve", "similar",
                        \* "fanout" (an adverse-event lookup), or "done"
    compound,           \* the path parameter
    limit,              \* the parsed ?limit=
    smiles,             \* the resolved structure string (optional)
    similar_compounds,  \* result of get_similar_compounds
    idx,                \* position in similar_compounds of the for loop
    all_reactions,      \* the tally
    status,             \* HTTP status of the reply, 0 while pending
    report,             \* the JSON body of the reply (optional)
    chemblCalls,        \* [chembl_id, result] of registry lookups
    searchCalls,        \* [name, result] of name searches
    simCalls,           \* [smiles, limit, response] of similarity searches
    lookups             \* [drug_name, limit, result] of event lookups

vars == <<pc, compound, limit, smiles, similar_compounds, idx, all_reactions,
          status, report, chemblCalls, searchCalls, simCalls, lookups>>

Init ==
    /\ pc = "resolve"
    /\ compound \in Identifiers
    /\ \E arg \in LimitArgs : limit = ArgsGetInt(arg, DefaultLimit)
    /\ smiles = Null
    /\ similar_compounds = <<>>
    /\ idx = 1
    /\ all_reactions = <<>>
    /\ status = 0
    /\ report = Null
    /\ chemblCalls = <<>>
    /\ searchCalls = <<>>
    /\ simCalls = <<>>
    /\ lookups = <<>>

\* return jsonify({'error': 'Compound not found'}), 404
ReplyNotFound ==
    /\ pc' = "done"
    /\ status' = 404
    /\ report' = Some([error |-> "Compound not found"])
    /\ UNCHANGED smiles

\* the request dies with an unhandled exception
ReplyServerError ==
    /\ pc' = "done"
    /\ status' = 500
    /\ report' = Null

Resolved(s) ==
    /\ pc' = "similar"
    /\ smiles' = Some(s)
    /\ UNCHANGED <<status, report>>

\* compound.startswith('CHEMBL'): direct registry lookup
ResolveChembl ==
    /\ pc = "resolve"
    /\ StartsWith(compound, ChemblPrefix)
    /\ \E response \in ChemblResponses :
          LET compound_data == get_chembl_data(response)
          IN /\ chemblCalls' = Append(chemblCalls, [chembl_id |-> compound,
                                                     result |-> compound_data])
             /\ IF compound_data # Null
                   /\ TruthyChars(Get(compound_data[1], "smiles", Null))
                THEN Resolved(compound_data[1].smiles[1])
                ELSE ReplyNotFound
    /\ UNCHANGED <<compound, limit, similar_compounds, idx, all_reactions,
                   searchCalls, simCalls, lookups>>

\* the identifier already is a structure string
ResolveSmiles ==
    /\ pc = "resolve"
    /\ ~StartsWith(compound, ChemblPrefix)
    /\ ContainsAny(compound, StructureChars)
    /\ Resolved(compound)
    /\ UNCHANGED <<compound, limit, similar_compounds, idx, all_reactions,
                   chemblCalls, searchCalls, simCalls, lookups>>

\* free-text name: name search, first result
ResolveName ==
    /\ pc = "resolve"
    /\ ~StartsWith(compound, ChemblPrefix)
    /\ ~ContainsAny(compound, StructureChars)
    /\ \E response \in SearchResponses :
          LET search_results == search_compound(response)
          IN /\ searchCalls' = Append(searchCalls, [name |-> compound,
                                                     result |-> search_results])
             /\ IF search_results # <<>>
                   /\ TruthyChars(Get(first_result(search_results), "smiles", Null))
                THEN Resolved(first_result(search_results).smiles[1])
                ELSE ReplyNotFound
    /\ UNCHANGED <<compound, limit, similar_compounds, idx, all_reactions,
                   chemblCalls, simCalls, lookups>>

\* index of the first match at or after i that has a preferred name
\* (if comp.get('pref_name')), Len + 1 when there is none
NextNamed(similar, i) ==
    LET named == {j \in i..Len(similar) :
                     Truthy(Get(similar[j], "pref_name", Null))}
    IN IF named = {} THEN Len(similar) + 1
       ELSE CHOOSE j \in named : \A k \in named : j <= k

\* variant: an empty tally is answered as not found
ReplyNotFoundWhenEmpty(t) ==
    LET ranked == sorted_reactions(t)
    IN IF t = <<>>
       THEN /\ pc' = "done"
            /\ status' = 404
            /\ report' = Some([error |-> "Compound not found"])
       ELSE IF ranked = Null
       THEN ReplyServerError
       ELSE /\ pc' = "done"
            /\ status' = 200
            /\ report' = Some([query_compound |-> compound,
                               query_smiles |-> smiles[1],
                               total_unique_reactions |-> Len(t),
                               adverse_effects_across_similar_compounds |-> ranked[1]])

\* after the loop: sort, build the report and reply
Reply(t) ==
    LET ranked == sorted_reactions(t)
    IN IF ranked = Null
       THEN ReplyServerError
       ELSE /\ pc' = "done"
            /\ status' = 200
            /\ report' = Some([query_compound |-> compound,
                               query_smiles |-> smiles[1],
                               total_unique_reactions |-> Len(t),
                               adverse_effects_across_similar_compounds |-> ranked[1]])

\* the for loop runs from position i with tally t up to its next upstream
\* call, or to the reply when no match with a name is left
LoopFrom(similar, i, t) ==
    LET j == NextNamed(similar, i)
    IN /\ all_reactions' = t
       /\ idx' = j
       /\ IF j <= Len(similar)
          THEN pc' = "fanout" /\ UNCHANGED <<status, report>>
          ELSE Reply(t)

\* similar_compounds = get_similar_compounds(smiles, limit); all_reactions = {}
SimilaritySearch ==
    /\ pc = "similar"
    /\ \E response \in SimilarityResponses :
          LET similar == get_similar_compounds(response, limit)
          IN /\ similar_compounds' = similar
             /\ simCalls' = Append(simCalls, [smiles |-> smiles[1], limit |-> limit,
                                              response |-> response])
             /\ LoopFrom(similar, 1, <<>>)
    /\ UNCHANGED <<compound, limit, smiles, chemblCalls, searchCalls, lookups>>

\* number of event records received so far; MaxEvents caps it
EventsReceived ==
    LET RECURSIVE Total(_)
        Total(i) == IF i = 0 THEN 0
                    ELSE Len(lookups[i].result.adverse_events) + Total(i - 1)
    IN Total(Len(lookups))

\* one iteration of the for loop: the adverse-event lookup for the match at
\* idx and the merge of its events
Lookup ==
    /\ pc = "fanout"
    /\ idx <= Len(similar_compounds)
    /\ \E response \in FaersResponses(MaxEvents - EventsReceived) :
          LET drug_name == similar_compounds[idx].pref_name[1]
              adverse_data == get_adverse_events(drug_name, response)
              merged == MergeEvents(all_reactions,
                                    Get(adverse_data, "adverse_events", <<>>))
          IN /\ lookups' = Append(lookups, [drug_name |-> drug_name,
                                            limit |-> SubLimit,
                                            result |-> adverse_data])
             /\ IF merged.ok
                THEN LoopFrom(similar_compounds, idx + 1, merged.tally)
                ELSE /\ ReplyServerError
                     /\ UNCHANGED <<all_reactions, idx>>
    /\ UNCHANGED <<compound, limit, smiles, similar_compounds, chemblCalls,
                   searchCalls, simCalls>>

Next ==
    \/ ResolveChembl
    \/ ResolveSmiles
    \/ ResolveName
    \/ SimilaritySearch
    \/ Lookup

Spec == Init /\ [][Next]_vars

\* ------------------------------------------------------------------------
\* Properties
\* ------------------------------------------------------------------------
\* the identifier starts with the registry prefix
HasRegistryPrefix(s) ==
    /\ Len(s) >= 6
    /\ s[1] = "C" /\ s[2] = "H" /\ s[3] = "E" /\ s[4] = "M" /\ s[5] = "B" /\ s[6] = "L"

\* the identifier contains one of = # ( ) [ ]
HasStructureChar(s) ==
    \E i \in 1..Len(s) : s[i] \in {"=", "#", "(", ")", "[", "]"}

\* an optional character string that is absent or empty
NoStructure(v) == v = Null \/ v[1] = <<>>

\* an optional name that is absent or empty
NoName(v) == v = Null \/ v[1] = ""

\* the upstream call failed: transport error, non-success status, bad body
CallFailed(response) ==
    response.raises \/ response.status_code # 200 \/ response.json = Null

Ranked == report[1].adverse_effects_across_similar_compounds

\* the merge loop has run to its end (the sort may still have raised)
MergeFinished ==
    /\ pc = "done"
    /\ smiles # Null
    /\ idx > Len(similar_compounds)

\* the request died while merging the events of the match at idx
MergeRaised == pc = "done" /\ status = 500 /\ idx <= Len(similar_compounds)

\* all events returned by the lookups, in the order received
RECURSIVE EventsUpTo(_)
EventsUpTo(i) ==
    IF i = 0 THEN <<>>
    ELSE EventsUpTo(i - 1) \o lookups[i].result.adverse_events

AllEvents == EventsUpTo(Len(lookups))

\* the reaction terms carried by returned events
TermsReturned ==
    {AllEvents[k].reaction[1] :
        k \in {j \in 1..Len(AllEvents) : ~NoName(AllEvents[j].reaction)}}

\* sum of the counts of the events with term t; an event without a count
\* has nothing to add
RECURSIVE SumCounts(_, _)
SumCounts(t, k) ==
    IF k = 0 THEN 0
    ELSE SumCounts(t, k - 1)
         + (IF AllEvents[k].reaction = Some(t) /\ AllEvents[k].count # Null
            THEN AllEvents[k].count[1] ELSE 0)

\* C1: whenever the query compound resolves to a structure string the
\* request ends with a success report, whatever the similarity search and
\* the adverse-event lookups return.
C1_OnlyResolutionFails ==
    (pc = "done" /\ smiles # Null) => (status = 200 /\ report # Null)

\* C2: after the merge, the keys of the tally are exactly the terms carried
\* by returned events, and the count of each key is the sum of the counts
\* of the events with that term.
C2_TallyIsSum ==
    MergeFinished =>
        /\ Keys(all_reactions) = TermsReturned
        /\ \A i \in 1..Len(all_reactions) :
              all_reactions[i].count
                  = Some(SumCounts(all_reactions[i].reaction, Len(AllEvents)))

\* C3: in every report returned, total_unique_reactions is the number of
\* distinct keys of the tally, the ranked sequence has one entry per key,
\* no term twice, and total_count never increases along it.
C3_ReportShape ==
    status = 200 =>
        /\ report[1].total_unique_reactions = Cardinality(Keys(all_reactions))
        /\ Len(Ranked) = report[1].total_unique_reactions
        /\ {Ranked[i].reaction : i \in 1..Len(Ranked)} = Keys(all_reactions)
        /\ \A i, j \in 1..Len(Ranked) :
              i # j => Ranked[i].reaction # Ranked[j].reaction
        /\ \A i \in 1..(Len(Ranked) - 1) :
              Ranked[i].total_count[1] >= Ranked[i + 1].total_count[1]

\* a report of two terms whose order in the report is not the order in
\* which the tally received them
C3_Witness ==
    /\ status = 200
    /\ Len(Ranked) = 2
    /\ Ranked[1].total_count[1] > Ranked[2].total_count[1]
    /\ Ranked[1].reaction = all_reactions[2].reaction

\* what C4 says of an identifier, once resolution is over
PassedThrough ==
    /\ chemblCalls = <<>>
    /\ searchCalls = <<>>
    /\ smiles = Some(compound)
    /\ status # 404
    /\ \A i \in 1..Len(simCalls) : simCalls[i].smiles = compound
    /\ status = 200 => report[1].query_smiles = report[1].query_compound

\* C4 as stated: every identifier containing one of = # ( ) [ ] is passed
\* through unchanged, with no registry lookup and no name search.
C4_AnyStructureCharPassesThrough ==
    (pc # "resolve" /\ HasStructureChar(compound)) => PassedThrough

\* C4 amended: every identifier that does not start with CHEMBL and
\* contains one of = # ( ) [ ] is passed through unchanged, with no
\* registry lookup and no name search.
C4_StructureCharPassesThrough ==
    (pc # "resolve" /\ ~HasRegistryPrefix(compound) /\ HasStructureChar(compound))
        => PassedThrough

\* a bracketed identifier that is no real structure reached the
\* similarity search and the report
C4_Witness ==
    /\ compound = <<"[", "x", "]">>
    /\ status = 200
    /\ Len(simCalls) = 1
    /\ report[1].query_smiles = compound

\* the request ended as not found, before any similarity search or lookup
EndedNotFound ==
    /\ pc = "done"
    /\ status = 404
    /\ report = Some([error |-> "Compound not found"])
    /\ smiles = Null
    /\ simCalls = <<>>
    /\ lookups = <<>>

\* C5: a registry lookup that fails or yields no structure string, and a
\* name search with no results or whose first result lacks a structure
\* string, end the request as not found with no similarity search and no
\* adverse-event lookup.
C5_NotFound ==
    /\ \A i \in 1..Len(chemblCalls) :
          (chemblCalls[i].result = Null \/ NoStructure(chemblCalls[i].result[1].smiles))
              => EndedNotFound
    /\ \A i \in 1..Len(searchCalls) :
          (searchCalls[i].result = <<>> \/ NoStructure(searchCalls[i].result[1].smiles))
              => EndedNotFound
    /\ status = 404 => EndedNotFound

\* a name search whose first result has no structure string and whose
\* second result has one
C5_Witness ==
    /\ Len(searchCalls) = 1
    /\ Len(searchCalls[1].result) = 2
    /\ NoStructure(searchCalls[1].result[1].smiles)
    /\ ~NoStructure(searchCalls[1].result[2].smiles)
    /\ status = 404

\* the tally as a mapping: the set of its (term, count) pairs
AsMapping(t) == {<<t[i].reaction, t[i].count>> : i \in 1..Len(t)}

\* merge the event lists contribs[order[1]], contribs[order[2]], ... from k on
RECURSIVE MergeInOrder(_, _, _, _)
MergeInOrder(t, contribs, order, k) ==
    IF k > Len(order) THEN Ok(t)
    ELSE LET r == MergeEvents(t, contribs[order[k]])
         IN IF r.ok THEN MergeInOrder(r.tally, contribs, order, k + 1) ELSE Raised

Orders(n) ==
    {p \in [1..n -> 1..n] : \A i, j \in 1..n : i # j => p[i] # p[j]}

Contributions == [i \in 1..Len(lookups) |-> lookups[i].result.adverse_events]

\* C6: merging the event lists received so far in any order gives what the
\* request computed: the same mapping from term to count, or the same
\* failure.
C6_MergeCommutative ==
    pc \in {"fanout", "done"} =>
        \A p \in Orders(Len(lookups)) :
            LET r == MergeInOrder(<<>>, Contributions, p, 1)
            IN IF MergeRaised THEN ~r.ok
               ELSE r.ok /\ AsMapping(r.tally) = AsMapping(all_reactions)

\* two lookups returned different event lists that share a term
C6_Witness ==
    /\ status = 200
    /\ Len(lookups) = 2
    /\ Contributions[1] # Contributions[2]
    /\ \E a \in 1..Len(Contributions[1]), b \in 1..Len(Contributions[2]) :
          /\ ~NoName(Contributions[1][a].reaction)
          /\ Contributions[1][a].reaction = Contributions[2][b].reaction
    /\ Len(all_reactions) = 2

\* C7: when resolution succeeds and the similarity search gives no matches,
\* also because its call failed, the request ends with a success report of
\* zero reactions, and no adverse-event lookup is issued.
C7_NoMatches ==
    /\ \A i \in 1..Len(simCalls) :
          CallFailed(simCalls[i].response) => similar_compounds = <<>>
    /\ (simCalls # <<>> /\ similar_compounds = <<>>) =>
          /\ pc = "done"
          /\ status = 200
          /\ report[1].total_unique_reactions = 0
          /\ Ranked = <<>>
          /\ lookups = <<>>

\* the similarity call failed and the request was answered with a report
C7_Witness ==
    /\ Len(simCalls) = 1
    /\ simCalls[1].response.raises
    /\ status = 200
    /\ Ranked = <<>>

\* the similarity payload is a list of molecules that all parse
WellFormed(response) ==
    /\ ~CallFailed(response)
    /\ "molecules" \in DOMAIN response.json[1]
    /\ response.json[1].molecules # Null
    /\ \A k \in 1..Len(response.json[1].molecules[1]) :
          LET m == response.json[1].molecules[1][k]
          IN /\ "molecule_structures" \in DOMAIN m => m.molecule_structures # Null
             /\ "molecule_properties" \in DOMAIN m => m.molecule_properties # Null

\* C8: for every limit the endpoint accepts, the matches are the first
\* min(limit, n) of the n molecules of the source, in source order, and
\* never more than limit.
C8_TruncatedToLimit ==
    \A i \in 1..Len(simCalls) :
        WellFormed(simCalls[i].response) =>
            LET ms == simCalls[i].response.json[1].molecules[1]
            IN /\ Len(similar_compounds) <= limit
               /\ Len(similar_compounds) = Min(limit, Len(ms))
               /\ \A k \in 1..Len(similar_compounds) :
                     similar_compounds[k].pref_name = Get(ms[k], "pref_name", Null)

\* the non-empty preferred names of the matches, in match order
RECURSIVE NamesFrom(_)
NamesFrom(k) ==
    IF k > Len(similar_compounds) THEN <<>>
    ELSE IF NoName(similar_compounds[k].pref_name) THEN NamesFrom(k + 1)
    ELSE <<similar_compounds[k].pref_name[1]>> \o NamesFrom(k + 1)

\* C9: a resolved request issues one similarity search and then one lookup
\* per match with a non-empty preferred name, in match order, each with
\* sub-limit 50, and none for the other matches.
C9_FanOut ==
    (pc = "done" /\ smiles # Null) =>
        /\ Len(simCalls) = 1
        /\ [i \in 1..Len(lookups) |-> lookups[i].drug_name] = NamesFrom(1)
        /\ \A i \in 1..Len(lookups) : lookups[i].limit = 50

\* C10: total_reports of every lookup result is the number of distinct
\* reaction terms among its events.
C10_TotalReportsDistinctTerms ==
    \A i \in 1..Len(lookups) :
        LET events == lookups[i].result.adverse_events
        IN lookups[i].result.total_reports
               = Cardinality({events[k].reaction : k \in 1..Len(events)})

\* the event lists contribs[order[1]], contribs[order[2]], ... as one sequence
RECURSIVE EventsInOrder(_, _, _)
EventsInOrder(contribs, order, k) ==
    IF k > Len(order) THEN <<>>
    ELSE contribs[order[k]] \o EventsInOrder(contribs, order, k + 1)

\* position in events of the first event that carries term t
FirstAdded(events, t) ==
    CHOOSE k \in 1..Len(events) :
        /\ events[k].reaction = Some(t)
        /\ \A j \in 1..(k - 1) : events[j].reaction # Some(t)

\* entries of equal count stand in the order in which events first
\* carried their terms
TiesInFirstAddedOrder(ranked, events) ==
    \A i, j \in 1..Len(ranked) :
        (i < j /\ ranked[i].total_count = ranked[j].total_count)
            => FirstAdded(events, ranked[i].reaction)
                   < FirstAdded(events, ranked[j].reaction)

\* the ranked sequence the handler builds when the lookups answer in order p
RankedInOrder(p) ==
    sorted_reactions(MergeInOrder(<<>>, Contributions, p, 1).tally)

\* C11: in every report, terms of equal cumulative count are listed in the
\* order in which they were first added to the tally (match order, then
\* event order); the same holds of the report of every reordering of the
\* matches, so the ranked sequence follows the order of the matches.
C11_TiesInFirstAddedOrder ==
    status = 200 =>
        /\ TiesInFirstAddedOrder(Ranked, AllEvents)
        /\ \A p \in Orders(Len(lookups)) :
              /\ RankedInOrder(p) # Null
              /\ TiesInFirstAddedOrder(RankedInOrder(p)[1],
                                       EventsInOrder(Contributions, p, 1))

\* a report with two terms of equal count that a reordering of the two
\* matches ranks the other way round
C11_Witness ==
    /\ status = 200
    /\ Len(lookups) = 2
    /\ Len(Ranked) = 2
    /\ Ranked[1].total_count = Ranked[2].total_count
    /\ FirstAdded(AllEvents, Ranked[1].reaction) < FirstAdded(AllEvents, Ranked[2].reaction)
    /\ RankedInOrder(<<2, 1>>) = Some(<<Ranked[2], Ranked[1]>>)

====
